---------------------------- MODULE Spec2Model ----------------------------
(***************************************************************************)
(* State-management core of discord_bot.py: the mood registry (user_moods, *)
(* mood_timers), the per-user conversation ledger (conversation_state),    *)
(* the !setmood / !ask / !trivia / !summarize handlers and the periodic    *)
(* reset_mood_task, all running as coroutines on one asyncio event loop.   *)
(*                                                                         *)
(* A text is the run-length encoded list of its whitespace separated       *)
(* words: a sequence of records [w |-> word, n |-> repetitions].  The wall *)
(* clock is counted in minutes.  A coroutine owns the event loop (running) *)
(* from the moment it is resumed until it reaches a point that suspends.   *)
(*                                                                         *)
(* conversation_state is a defaultdict(list): a user without a key reads   *)
(* as the empty list, so it is a function on all users.  The local         *)
(* `conversation` of ask_with_mood is the very list stored in the dict, so *)
(* its appends and pops are written as updates of conversation_state.      *)
(*                                                                         *)
(* Spec is the whole program.  SpecConv (the handlers that call the model) *)
(* and SpecMood (the mood registry, its sweeper and the handlers that read *)
(* it without touching a ledger) are the two parts that are explored       *)
(* exhaustively: the ledgers and the registry share nothing but the event  *)
(* loop and the mood label an ask passes on to the model.                  *)
(***************************************************************************)
EXTENDS Integers, Sequences, FiniteSets, TLC

\* ------------------------------------------------------------- bounds ---
MaxAsks == 2
MaxTicks == 2
MaxStory == 3

\* ---------------------------------------------------------- constants ---
TOKEN_LIMIT == 4000
MOOD_MINUTES == 60
DEFAULT_MOOD == "friendly"

Users == {"u1", "u2"}
Handlers == {"h1", "h2"}
Moods == {"sarcastic", "formal"}
ClockSteps == {1, 60}
Channels == {"c1", "c2"}
Authors == {"Alice", "Bob"}
None == "None"
SWEEPER == "reset_mood_task"

Word(w) == <<[w |-> w, n |-> 1]>>
Run(w, k) == <<[w |-> w, n |-> k]>>

\* The texts users type after !ask / !summarize, by size.
Questions == {Word("hello"), Run("long", 2500), Run("huge", 4500)}
\* The texts the model returns, already stripped.
Responses == {Run("reply", 2000)}
FALLBACK == Word("Oops,") \o Word("I") \o Word("had") \o Word("trouble")
              \o Word("thinking.") \o Word("Try") \o Word("asking")
              \o Word("me") \o Word("again!")
\* The texts added to a story.
Additions == {Run("upon", 3)}
NO_STORY == Word("No") \o Word("story") \o Word("started") \o Word("yet!")
STORY_SO_FAR == Word("Story") \o Word("so") \o Word("far:")
HERES_THE_STORY == Word("Here's") \o Word("the") \o Word("story")
                     \o Word("so") \o Word("far:")
TRIVIA_PROMPT == Word("Ask") \o Word("me") \o Word("a") \o Word("fun")
              \o Word("trivia") \o Word("question.")

VARIABLES
  clock,               \* datetime.now(), in minutes
  nticks,              \* number of clock advances so far (bounds the model)
  user_moods,          \* dict user -> label
  mood_timers,         \* dict user -> expiry time
  timer_order,         \* insertion order of mood_timers' keys
  conversation_state,  \* dict user -> list of messages
  hs,                  \* per handler coroutine: position and locals
  running,             \* the coroutine that owns the event loop, or None
  sweep,               \* reset_mood_task: position, key snapshot, decision
  nasks,               \* number of !ask commands so far (bounds the model)
  story_state,         \* dict channel -> list of contributions
  contributed,         \* history: every contribution made, per channel
  appended,            \* history: every message ever appended, per user
  askLog,              \* history: the completed asks, per user, in order
  lastSet              \* history: the last completed setmood, per user

vars == <<clock, nticks, user_moods, mood_timers, timer_order,
          conversation_state, hs, running, sweep, nasks, story_state,
          contributed, appended, askLog, lastSet>>

storyVars == <<story_state, contributed>>

\* ------------------------------------------------------ pure functions ---
RECURSIVE SumRuns(_)
SumRuns(text) ==
  IF text = <<>> THEN 0 ELSE Head(text).n + SumRuns(Tail(text))

\* len(text.split())
count_tokens(text) == SumRuns(text)

\* f"User: {question}" and f"Bot: {response}"
UserMsg(question) == Word("User:") \o question
BotMsg(response) == Word("Bot:") \o response

RECURSIVE total_tokens(_)
total_tokens(conversation) ==
  IF conversation = <<>> THEN 0
  ELSE count_tokens(Head(conversation)) + total_tokens(Tail(conversation))

\* conversation.pop(): the newest message goes instead of the oldest.
PopNewest(conversation) == SubSeq(conversation, 1, Len(conversation) - 1)

\* conversation.pop(0)
PopOldest(conversation) == Tail(conversation)

\* The truncation loop of ask_with_mood.
RECURSIVE Truncate(_)
Truncate(conversation) ==
  IF total_tokens(conversation) > TOKEN_LIMIT /\ conversation # <<>>
  THEN Truncate(PopOldest(conversation))
  ELSE conversation

\* user_moods.get(user_id): a missing user reads as None.
ReadMoodNoDefault(moods, u) == IF u \in DOMAIN moods THEN moods[u] ELSE None

\* user_moods.get(user_id, "friendly")
ReadMood(moods, u) == IF u \in DOMAIN moods THEN moods[u] ELSE DEFAULT_MOOD

\* d[k] = v and d.pop(k, None) on a dict
DictSet(d, k, v) == [x \in DOMAIN d \cup {k} |-> IF x = k THEN v ELSE d[x]]
DictPop(d, k) == [x \in DOMAIN d \ {k} |-> d[x]]

RECURSIVE Without(_, _)
Without(s, k) ==
  IF s = <<>> THEN <<>>
  ELSE IF Head(s) = k THEN Without(Tail(s), k)
  ELSE <<Head(s)>> \o Without(Tail(s), k)

\* An expiry that is only stored for a user who has none yet.
ExpiryKeepsOld(now, timers, u) ==
  IF u \in DOMAIN timers THEN timers[u] ELSE now + MOOD_MINUTES

\* The expiry set_mood stores: datetime.now() + timedelta(minutes=60),
\* whatever mood_timers holds for the user.
Expiry(now, timers, u) == now + MOOD_MINUTES

\* The event loop is given up while the model is being called.
SuspendsAtLlm(site) == site \in {"send", "ask_llm"}

\* The event loop is given up between the expiry test and the pops.
SuspendsInSweep(site) == site \in {"send", "sweep"}

\* Whether a coroutine gives up the event loop at a place of the code:
\* "ask_llm" (await ask_llm(...): ask_llm contains no await, it calls
\* llm.invoke / llm.predict synchronously, so awaiting it never suspends),
\* "sweep" (between the expiry test and the pops of reset_mood_task: no
\* await), "send" (await ctx.send(...), real I/O).
Suspends(site) == site = "send"

\* ask_llm without its except clause: the failure of the call is raised.
ask_llm_reraises(ok, text) == [raised |-> ~ok, text |-> text]

\* ask_llm: the stripped text of the model, or the fallback text when
\* anything inside the try block raised; it never raises itself.
ask_llm(ok, text) ==
  [raised |-> FALSE, text |-> IF ok THEN text ELSE FALLBACK]

\* f"Respond in a {mood} tone."
MoodLine(mood) ==
  Word("Respond") \o Word("in") \o Word("a") \o Word(mood) \o Word("tone.")

\* The lines of "\n".join(conversation): the empty list joins to the empty
\* string, which is one empty line.
JoinLines(conversation) ==
  IF conversation = <<>> THEN << <<>> >> ELSE conversation

\* The prompt of ask_llm, line by line:
\* f"Respond in a {mood} tone.\n" + "\n".join(conversation)
\*   + f"\nUser: {question}"
BuildPrompt(mood, conversation, question) ==
  <<MoodLine(mood)>> \o JoinLines(conversation) \o <<UserMsg(question)>>

\* trivia / summarize hand the user's ledger to ask_llm.
OneShotConversationLedger(ledger) == ledger

\* trivia / summarize call ask_llm without a conversation: the default
\* argument conversation=[] is used, and ask_llm never changes it.
OneShotConversation(ledger) == <<>>

\* f"{ctx.author.name}: {addition}"
StoryLine(author, addition) == <<[w |-> <<author, ":">>, n |-> 1]>> \o addition

\* "\n".join(story), as one text
RECURSIVE JoinText(_)
JoinText(lines) ==
  IF lines = <<>> THEN <<>> ELSE Head(lines) \o JoinText(Tail(lines))

\* A contribution that lands in front of the story.
StoryPutFront(stories, c, line) ==
  [stories EXCEPT ![c] = <<line>> \o @]

\* One list shared by all channels.
StoryPutShared(stories, c, line) ==
  [x \in DOMAIN stories |-> Append(stories[x], line)]

\* story = story_state[channel_id]; story.append(line)
StoryPut(stories, c, line) == [stories EXCEPT ![c] = Append(@, line)]

\* A handler keeps a local only while the code can still read it.
IdleHandler == [pc |-> "idle", cmd |-> None, user_id |-> None,
                channel_id |-> None, question |-> <<>>, mood |-> None,
                prompt |-> <<>>, response |-> <<>>, failed |-> FALSE]
NeverSet == [label |-> None, at |-> 0]
\* The expiry test with the boundary instant counted as expired.
ExpiredAtBoundary(now, expiry) == now >= expiry

\* datetime.now() > mood_timers[user_id]
Expired(now, expiry) == now > expiry

\* The sweeper's locals: the snapshot still to visit, the time the tick
\* began, and the time read and the outcome of the test in progress.
IdleSweep == [pc |-> "idle", keys |-> <<>>, expired |-> FALSE,
              started |-> 0, now |-> 0]

\* --------------------------------------------------------------- Init ---
Init ==
  /\ clock = 0
  /\ nticks = 0
  /\ user_moods = <<>>
  /\ mood_timers = <<>>
  /\ timer_order = <<>>
  /\ conversation_state = [u \in Users |-> <<>>]
  /\ hs = [h \in Handlers |-> IdleHandler]
  /\ running = None
  /\ sweep = IdleSweep
  /\ nasks = 0
  /\ story_state = [c \in Channels |-> <<>>]
  /\ contributed = [c \in Channels |-> <<>>]
  /\ appended = [u \in Users |-> <<>>]
  /\ askLog = [u \in Users |-> <<>>]
  /\ lastSet = [u \in Users |-> NeverSet]

Yield(me, site) == IF Suspends(site) THEN None ELSE me
MayRun(me) == running \in {me, None}

\* ------------------------------------------------------------ actions ---
\* Wall-clock time passes, whatever the event loop is doing.
AdvanceClock(d) ==
  /\ nticks < MaxTicks
  /\ clock' = clock + d
  /\ nticks' = nticks + 1
  /\ UNCHANGED <<user_moods, mood_timers, timer_order, conversation_state,
                 hs, running, sweep, nasks, appended, askLog, lastSet>>
  /\ UNCHANGED storyVars

\* set_mood up to its first await (ctx.send).
SetMood(h, u, mood) ==
  /\ running = None
  /\ hs[h].pc = "idle"
  /\ user_moods' = DictSet(user_moods, u, mood)
  /\ mood_timers' = DictSet(mood_timers, u, Expiry(clock, mood_timers, u))
  /\ timer_order' = IF u \in DOMAIN mood_timers THEN timer_order
                    ELSE Append(timer_order, u)
  /\ lastSet' = [lastSet EXCEPT ![u] = [label |-> mood, at |-> clock]]
  /\ hs' = [hs EXCEPT ![h] = [IdleHandler EXCEPT !.pc = "send",
                                !.cmd = "setmood", !.user_id = u,
                                !.mood = mood]]
  /\ running' = Yield(h, "send")
  /\ UNCHANGED <<clock, nticks, conversation_state, sweep, nasks, appended,
                 askLog>>
  /\ UNCHANGED storyVars

\* One list behind every identity: a write for one identity is seen by all.
LedgerPutShared(state, u, ledger) == [v \in DOMAIN state |-> ledger]

\* conversation_state[user_id] = conversation: defaultdict(list) makes a
\* fresh list for each key, so a write reaches the ledger of user_id only.
LedgerPut(state, u, ledger) == [state EXCEPT ![u] = ledger]

\* ask_with_mood from its start to the call of ask_llm: reads the mood,
\* appends the user message and truncates.
AskBegin(h, u, question) ==
  /\ running = None
  /\ hs[h].pc = "idle"
  /\ nasks < MaxAsks
  /\ nasks' = nasks + 1
  /\ conversation_state' =
       LedgerPut(conversation_state, u,
                 Truncate(Append(conversation_state[u], UserMsg(question))))
  /\ appended' = [appended EXCEPT ![u] = Append(@, UserMsg(question))]
  /\ hs' = [hs EXCEPT ![h] = [IdleHandler EXCEPT !.pc = "llm",
                                !.cmd = "ask", !.user_id = u,
                                !.question = question,
                                !.mood = ReadMood(user_moods, u),
                                !.prompt =
                                  BuildPrompt(ReadMood(user_moods, u),
                                              conversation_state'[u],
                                              question)]]
  /\ running' = Yield(h, "ask_llm")
  /\ UNCHANGED <<clock, nticks, user_moods, mood_timers, timer_order, sweep,
                 askLog, lastSet>>
  /\ UNCHANGED storyVars

\* ask_llm returns (the model's text, or the fallback when the call raised)
\* and ask_with_mood appends the bot message, up to its first ctx.send.  An
\* exception leaving ask_llm would end the handler in on_command_error.
AskLlmReturn(h, ok, text) ==
  /\ MayRun(h)
  /\ hs[h].pc = "llm"
  /\ hs[h].cmd = "ask"
  /\ LET r == ask_llm(ok, text)
         u == hs[h].user_id
     IN IF r.raised
        THEN /\ hs' = [hs EXCEPT ![h] = [IdleHandler EXCEPT !.pc = "error",
                                           !.cmd = "ask", !.user_id = u,
                                           !.failed = ~ok]]
             /\ UNCHANGED <<conversation_state, appended, askLog>>
        ELSE /\ conversation_state' =
                  LedgerPut(conversation_state, u,
                            Append(conversation_state[u], BotMsg(r.text)))
             /\ appended' = [appended EXCEPT ![u] = Append(@, BotMsg(r.text))]
             /\ askLog' = [askLog EXCEPT
                             ![u] = Append(@, [question |-> hs[h].question,
                                               response |-> r.text])]
             /\ hs' = [hs EXCEPT ![h] = [IdleHandler EXCEPT !.pc = "send",
                                           !.cmd = "ask", !.user_id = u,
                                           !.response = r.text,
                                           !.failed = ~ok]]
  /\ running' = Yield(h, "send")
  /\ UNCHANGED <<clock, nticks, user_moods, mood_timers, timer_order, sweep,
                 nasks, lastSet>>
  /\ UNCHANGED storyVars

\* trivia / summarize from their start to the call of ask_llm.
OneShotBegin(h, u, cmd, text) ==
  /\ running = None
  /\ hs[h].pc = "idle"
  /\ hs' = [hs EXCEPT ![h] = [IdleHandler EXCEPT !.pc = "llm", !.cmd = cmd,
                                !.user_id = u,
                                !.mood = ReadMood(user_moods, u),
                                !.prompt =
                                  BuildPrompt(
                                    ReadMood(user_moods, u),
                                    OneShotConversation(conversation_state[u]),
                                    text)]]
  /\ running' = Yield(h, "ask_llm")
  /\ UNCHANGED <<clock, nticks, user_moods, mood_timers, timer_order,
                 conversation_state, sweep, nasks, appended, askLog, lastSet>>
  /\ UNCHANGED storyVars

Trivia(h, u) == OneShotBegin(h, u, "trivia", TRIVIA_PROMPT)

Summarize(h, u, text) ==
  OneShotBegin(h, u, "summarize",
               Word("Summarize") \o Word("this") \o Word("text") \o Word("in")
                 \o Word("a") \o Word("concise") \o Word("manner:") \o text)

\* ask_llm returns to trivia / summarize.
OneShotLlmReturn(h, ok, text) ==
  /\ MayRun(h)
  /\ hs[h].pc = "llm"
  /\ hs[h].cmd \in {"trivia", "summarize"}
  /\ LET r == ask_llm(ok, text)
     IN hs' = [hs EXCEPT ![h] = [IdleHandler EXCEPT
                                   !.pc = IF r.raised THEN "error" ELSE "send",
                                   !.cmd = hs[h].cmd,
                                   !.user_id = hs[h].user_id,
                                   !.response = IF r.raised THEN <<>>
                                                ELSE r.text,
                                   !.failed = ~ok]]
  /\ running' = Yield(h, "send")
  /\ UNCHANGED <<clock, nticks, user_moods, mood_timers, timer_order,
                 conversation_state, sweep, nasks, appended, askLog, lastSet>>
  /\ UNCHANGED storyVars

\* The reply (or, from on_command_error, the error notice) is sent and the
\* handler ends.
Reply(h) ==
  /\ MayRun(h)
  /\ hs[h].pc \in {"send", "error"}
  /\ hs' = [hs EXCEPT ![h] = IdleHandler]
  /\ running' = None
  /\ UNCHANGED <<clock, nticks, user_moods, mood_timers, timer_order,
                 conversation_state, sweep, nasks, appended, askLog, lastSet>>
  /\ UNCHANGED storyVars

\* The number of contributions made so far, over all channels.
RECURSIVE StoryCountIn(_, _)
StoryCountIn(log, cs) ==
  IF cs = {} THEN 0
  ELSE LET c == CHOOSE x \in cs : TRUE
       IN Len(log[c]) + StoryCountIn(log, cs \ {c})
StoryCount(log) == StoryCountIn(log, DOMAIN log)

\* story with an addition, up to its first ctx.send.
StoryAdd(h, c, author, addition) ==
  /\ running = None
  /\ hs[h].pc = "idle"
  /\ StoryCount(contributed) < MaxStory
  /\ story_state' = StoryPut(story_state, c, StoryLine(author, addition))
  /\ contributed' = [contributed EXCEPT
                       ![c] = Append(@, StoryLine(author, addition))]
  /\ hs' = [hs EXCEPT ![h] = [IdleHandler EXCEPT !.pc = "send",
                                !.cmd = "story", !.channel_id = c,
                                !.question = addition,
                                !.response = STORY_SO_FAR
                                               \o JoinText(story_state'[c])]]
  /\ running' = Yield(h, "send")
  /\ UNCHANGED <<clock, nticks, user_moods, mood_timers, timer_order,
                 conversation_state, sweep, nasks, appended, askLog, lastSet>>

\* story without an addition, up to its first ctx.send.
StoryRead(h, c) ==
  /\ running = None
  /\ hs[h].pc = "idle"
  /\ hs' = [hs EXCEPT ![h] = [IdleHandler EXCEPT !.pc = "send",
                                !.cmd = "story", !.channel_id = c,
                                !.response =
                                  IF story_state[c] # <<>>
                                  THEN HERES_THE_STORY
                                         \o JoinText(story_state[c])
                                  ELSE NO_STORY]]
  /\ running' = Yield(h, "send")
  /\ UNCHANGED <<clock, nticks, user_moods, mood_timers, timer_order,
                 conversation_state, sweep, nasks, appended, askLog, lastSet>>
  /\ UNCHANGED storyVars

\* The tick visits no key.
SweepSnapshotEmpty(order) == <<>>

\* list(mood_timers): the keys at the start of the tick, in insertion order.
SweepSnapshot(order) == order

\* reset_mood_task: a tick starts and snapshots list(mood_timers).
SweepStart ==
  /\ running = None
  /\ sweep.pc = "idle"
  /\ sweep' = [pc |-> "test", keys |-> SweepSnapshot(timer_order),
               expired |-> FALSE, started |-> clock, now |-> 0]
  /\ running' = SWEEPER
  /\ UNCHANGED <<clock, nticks, user_moods, mood_timers, timer_order,
                 conversation_state, hs, nasks, appended, askLog, lastSet>>
  /\ UNCHANGED storyVars

\* if datetime.now() > mood_timers[user_id]
SweepTest ==
  /\ MayRun(SWEEPER)
  /\ sweep.pc = "test"
  /\ sweep.keys # <<>>
  /\ Head(sweep.keys) \in DOMAIN mood_timers
  /\ sweep' = [sweep EXCEPT !.pc = "pop", !.now = clock,
                 !.expired = Expired(clock, mood_timers[Head(sweep.keys)])]
  /\ running' = Yield(SWEEPER, "sweep")
  /\ UNCHANGED <<clock, nticks, user_moods, mood_timers, timer_order,
                 conversation_state, hs, nasks, appended, askLog, lastSet>>
  /\ UNCHANGED storyVars

\* Only the expiry is deleted; the label stays behind.
SweepDeleteTimerOnly(moods, timers, u) ==
  [moods |-> moods, timers |-> DictPop(timers, u)]

\* user_moods.pop(user_id, None); mood_timers.pop(user_id, None)
SweepDelete(moods, timers, u) ==
  [moods |-> DictPop(moods, u), timers |-> DictPop(timers, u)]

\* The body of the if, or nothing when the test failed; then the next key.
SweepPop ==
  /\ MayRun(SWEEPER)
  /\ sweep.pc = "pop"
  /\ LET u == Head(sweep.keys)
     IN IF sweep.expired
        THEN /\ user_moods' = SweepDelete(user_moods, mood_timers, u).moods
             /\ mood_timers' = SweepDelete(user_moods, mood_timers, u).timers
             /\ timer_order' = Without(timer_order, u)
        ELSE UNCHANGED <<user_moods, mood_timers, timer_order>>
  /\ sweep' = [sweep EXCEPT !.pc = "test", !.keys = Tail(sweep.keys),
                 !.expired = FALSE, !.now = 0]
  /\ running' = SWEEPER
  /\ UNCHANGED <<clock, nticks, conversation_state, hs, nasks, appended,
                 askLog, lastSet>>
  /\ UNCHANGED storyVars

\* The loop over the snapshot is exhausted: the tick ends.
SweepEnd ==
  /\ MayRun(SWEEPER)
  /\ sweep.pc = "test"
  /\ sweep.keys = <<>>
  /\ sweep' = IdleSweep
  /\ running' = None
  /\ UNCHANGED <<clock, nticks, user_moods, mood_timers, timer_order,
                 conversation_state, hs, nasks, appended, askLog, lastSet>>
  /\ UNCHANGED storyVars

Next ==
  \/ \E d \in ClockSteps : AdvanceClock(d)
  \/ \E h \in Handlers, u \in Users, m \in Moods : SetMood(h, u, m)
  \/ \E h \in Handlers, u \in Users, q \in Questions : AskBegin(h, u, q)
  \/ \E h \in Handlers, ok \in BOOLEAN, t \in Responses : AskLlmReturn(h, ok, t)
  \/ \E h \in Handlers, u \in Users : Trivia(h, u)
  \/ \E h \in Handlers, u \in Users, q \in Questions : Summarize(h, u, q)
  \/ \E h \in Handlers, ok \in BOOLEAN, t \in Responses :
       OneShotLlmReturn(h, ok, t)
  \/ \E h \in Handlers, c \in Channels, a \in Authors, t \in Additions :
       StoryAdd(h, c, a, t)
  \/ \E h \in Handlers, c \in Channels : StoryRead(h, c)
  \/ \E h \in Handlers : Reply(h)
  \/ SweepStart
  \/ SweepTest
  \/ SweepPop
  \/ SweepEnd

Spec == Init /\ [][Next]_vars

NextConv ==
  \/ \E h \in Handlers, u \in Users, q \in Questions : AskBegin(h, u, q)
  \/ \E h \in Handlers, ok \in BOOLEAN, t \in Responses : AskLlmReturn(h, ok, t)
  \/ \E h \in Handlers, u \in Users : Trivia(h, u)
  \/ \E h \in Handlers, u \in Users, q \in Questions : Summarize(h, u, q)
  \/ \E h \in Handlers, ok \in BOOLEAN, t \in Responses :
       OneShotLlmReturn(h, ok, t)
  \/ \E h \in Handlers : Reply(h)

SpecConv == Init /\ [][NextConv]_vars

NextMood ==
  \/ \E d \in ClockSteps : AdvanceClock(d)
  \/ \E h \in Handlers, u \in Users, m \in Moods : SetMood(h, u, m)
  \/ \E h \in Handlers, u \in Users : Trivia(h, u)
  \/ \E h \in Handlers, u \in Users, q \in Questions : Summarize(h, u, q)
  \/ \E h \in Handlers, ok \in BOOLEAN, t \in Responses :
       OneShotLlmReturn(h, ok, t)
  \/ \E h \in Handlers : Reply(h)
  \/ SweepStart
  \/ SweepTest
  \/ SweepPop
  \/ SweepEnd

SpecMood == Init /\ [][NextMood]_vars

NextStory ==
  \/ \E h \in Handlers, c \in Channels, a \in Authors, t \in Additions :
       StoryAdd(h, c, a, t)
  \/ \E h \in Handlers, c \in Channels : StoryRead(h, c)
  \/ \E h \in Handlers, u \in Users, m \in Moods : SetMood(h, u, m)
  \/ \E h \in Handlers : Reply(h)
  \/ SweepStart
  \/ SweepTest
  \/ SweepPop
  \/ SweepEnd

SpecStory == Init /\ [][NextStory]_vars

\* The commands that read or write per-identity state, without the clock
\* and the sweeper.
IsoQuestions == {Word("hello"), Run("long", 2500)}

NextIso ==
  \/ \E h \in Handlers, u \in Users : SetMood(h, u, "sarcastic")
  \/ \E h \in Handlers, u \in Users, q \in IsoQuestions : AskBegin(h, u, q)
  \/ \E h \in Handlers, ok \in BOOLEAN, t \in Responses : AskLlmReturn(h, ok, t)
  \/ \E h \in Handlers, u \in Users : Trivia(h, u)
  \/ \E h \in Handlers, u \in Users : Summarize(h, u, Word("hello"))
  \/ \E h \in Handlers, ok \in BOOLEAN, t \in Responses :
       OneShotLlmReturn(h, ok, t)
  \/ \E h \in Handlers : Reply(h)

SpecIso == Init /\ [][NextIso]_vars

\* Moods, time and the sweeper, with trivia as the request that holds the
\* event loop during its model call.
NextLive ==
  \/ \E d \in ClockSteps : AdvanceClock(d)
  \/ \E h \in Handlers, u \in Users : SetMood(h, u, "sarcastic")
  \/ \E h \in Handlers, u \in Users : Trivia(h, u)
  \/ \E h \in Handlers, t \in Responses : OneShotLlmReturn(h, TRUE, t)
  \/ \E h \in Handlers : Reply(h)
  \/ SweepStart
  \/ SweepTest
  \/ SweepPop
  \/ SweepEnd

\* tasks.loop(minutes=1) makes the tick due again every minute and the
\* event loop runs what is ready in turn, so a tick that is due again and
\* again begins (strong fairness: handlers may hold the loop in between);
\* a tick that has begun runs to its end, and a model call returns.
FairLive ==
  /\ SF_vars(SweepStart)
  /\ WF_vars(SweepTest)
  /\ WF_vars(SweepPop)
  /\ WF_vars(SweepEnd)
  /\ \A h \in Handlers :
       WF_vars(\E t \in Responses : OneShotLlmReturn(h, TRUE, t))

SpecLive == Init /\ [][NextLive]_vars /\ FairLive

\* ------------------------------------------------------------- claims ---
Turns(u) == conversation_state[u]
AskInFlight(u) ==
  {h \in Handlers : hs[h].pc = "llm" /\ hs[h].cmd = "ask" /\ hs[h].user_id = u}

\* The trimming rule as the specification words it: drop the oldest turn
\* while the estimate exceeds the ceiling and more than one turn is left.
RECURSIVE TrimKeepingOne(_)
TrimKeepingOne(conversation) ==
  IF total_tokens(conversation) > TOKEN_LIMIT /\ Len(conversation) > 1
  THEN TrimKeepingOne(Tail(conversation))
  ELSE conversation

\* C1: after every append to a user's ledger the estimates of its turns sum
\* to at most the token ceiling, or the ledger holds exactly one turn.
C1_WithinCeilingOrSingle ==
  \A u \in Users :
    total_tokens(Turns(u)) <= TOKEN_LIMIT \/ Len(Turns(u)) = 1

\* C2: a mood read made later than the entry's expiry returns the default
\* label, whether or not the sweeper has deleted the entry yet.
C2_ExpiredReadsDefault ==
  \A u \in DOMAIN mood_timers :
    clock > mood_timers[u] => ReadMood(user_moods, u) = DEFAULT_MOOD

\* C3: appending the bot turn runs the trimming rule: the ledger an ask
\* leaves is the trimmed ledger, oldest turns removed while it exceeds the
\* ceiling with more than one turn.
C3_BotAppendTrims ==
  [][\A h \in Handlers :
       (hs[h].pc = "llm" /\ hs[h].cmd = "ask" /\ hs'[h].pc = "send")
         => LET u == hs[h].user_id
            IN conversation_state'[u] =
                 TrimKeepingOne(Append(conversation_state[u],
                                       BotMsg(hs'[h].response)))]_vars

\* C4: right after the user turn is appended and the trimming has run, the
\* ledger still ends with that turn, even when it alone exceeds the ceiling.
C4_UserTurnKept ==
  \A h \in Handlers :
    (hs[h].pc = "llm" /\ hs[h].cmd = "ask")
      => /\ Turns(hs[h].user_id) # <<>>
         /\ Turns(hs[h].user_id)[Len(Turns(hs[h].user_id))]
              = UserMsg(hs[h].question)

\* C5: when the model call of an ask fails, the handler goes on to send the
\* fallback text as its reply (it does not end in the error handler) and the
\* user's ledger ends with a bot turn holding the fallback text.
C5_FallbackOnFailure ==
  [][\A h \in Handlers :
       (hs[h].pc = "llm" /\ hs[h].cmd = "ask" /\ hs'[h].pc # "llm"
          /\ hs'[h].failed)
         => LET ledger == conversation_state'[hs[h].user_id]
            IN /\ hs'[h].pc = "send"
               /\ hs'[h].response = FALLBACK
               /\ ledger # <<>>
               /\ ledger[Len(ledger)] = BotMsg(FALLBACK)]_vars

C5_Witness ==
  \E h \in Handlers :
    /\ hs[h].pc = "send" /\ hs[h].cmd = "ask" /\ hs[h].failed
    /\ \E i \in 1..Len(Turns(hs[h].user_id)) :
         Turns(hs[h].user_id)[i] = BotMsg(FALLBACK)

\* One ask run alone on a ledger, and the asks of a log run one after the
\* other from the empty ledger.
SerialAsk(conversation, a) ==
  Append(Truncate(Append(conversation, UserMsg(a.question))),
         BotMsg(a.response))

RECURSIVE Replay(_)
Replay(log) ==
  IF log = <<>> THEN <<>>
  ELSE SerialAsk(Replay(SubSeq(log, 1, Len(log) - 1)), log[Len(log)])

SerialLedgers(log) ==
  {Replay([i \in 1..Len(log) |-> log[p[i]]]) :
     p \in Permutations(1..Len(log))}

\* C6: the ledger mutations of concurrent asks for one user never
\* interleave: at most one ask of a user is between its user turn and its
\* bot turn, and the ledger is the one a serial execution of the user's
\* asks produces (followed by the user turn of the ask in progress).
C6_AsksSerialized ==
  \A u \in Users :
    /\ Cardinality(AskInFlight(u)) <= 1
    /\ \E base \in SerialLedgers(askLog[u]) :
         IF AskInFlight(u) = {}
         THEN Turns(u) = base
         ELSE \E h \in AskInFlight(u) :
                Turns(u) = Truncate(Append(base, UserMsg(hs[h].question)))

\* Two ask handlers of one user are alive at once: one still sending its
\* reply, the other between its user turn and its bot turn.
C6_Witness ==
  \E h1, h2 \in Handlers :
    /\ hs[h1].pc = "send" /\ hs[h1].cmd = "ask"
    /\ hs[h2].pc = "llm" /\ hs[h2].cmd = "ask"
    /\ hs[h1].user_id = hs[h2].user_id

\* C7: the sweeper deletes a user's entry only when the expiry the entry
\* holds at that moment is earlier than the time the sweeper reads, so a
\* setmood that ran in between is never undone.
C7_SweepDeletesOnlyExpired ==
  [][\A u \in DOMAIN user_moods :
       u \notin DOMAIN user_moods'
         => u \in DOMAIN mood_timers /\ clock > mood_timers[u]]_vars

\* The sweeper is about to delete the entry of a user whose setmood handler
\* is still in flight.
C7_Witness ==
  \E h \in Handlers :
    /\ hs[h].pc = "send" /\ hs[h].cmd = "setmood"
    /\ sweep.pc = "pop" /\ sweep.expired
    /\ Head(sweep.keys) = hs[h].user_id

IsSuffix(s, t) ==
  Len(s) <= Len(t) /\ s = SubSeq(t, Len(t) - Len(s) + 1, Len(t))

\* C9: every user's ledger is a contiguous suffix of the sequence of all
\* the turns ever appended for that user, in the order of the appends.
C9_LedgerIsSuffix ==
  \A u \in Users : IsSuffix(Turns(u), appended[u])

\* Trimming has removed turns and left at least two.
C9_Witness ==
  \E u \in Users : 2 <= Len(Turns(u)) /\ Len(Turns(u)) < Len(appended[u])

\* C10: after a setmood, a mood read made before 60 minutes have passed
\* returns the label that setmood stored, whatever the entry was before.
C10_ReadAfterSet ==
  \A u \in Users :
    (lastSet[u].label # None /\ clock - lastSet[u].at < MOOD_MINUTES)
      => ReadMood(user_moods, u) = lastSet[u].label

\* A setmood made after the first hour (over an entry that was absent,
\* expired or swept) is read back within its own hour.
C10_Witness ==
  \E u \in Users :
    /\ lastSet[u].label # None
    /\ lastSet[u].at > MOOD_MINUTES
    /\ clock - lastSet[u].at < MOOD_MINUTES
    /\ ReadMood(user_moods, u) = lastSet[u].label

\* C11: a mood read returns the default label for a user who never had a
\* setmood and for a user whose entry the sweeper has deleted, until the
\* next setmood; so does the read a handler has just made.
C11_AbsentReadsDefault ==
  \A u \in Users :
    (lastSet[u].label = None \/ u \notin DOMAIN mood_timers)
      => /\ ReadMood(user_moods, u) = DEFAULT_MOOD
         /\ \A h \in Handlers :
              (hs[h].pc = "llm" /\ hs[h].user_id = u)
                => hs[h].mood = DEFAULT_MOOD

\* A handler reads the mood of a user whose entry was set and then swept.
C11_Witness ==
  \E h \in Handlers :
    /\ hs[h].pc = "llm"
    /\ lastSet[hs[h].user_id].label # None
    /\ hs[h].user_id \notin DOMAIN mood_timers
    /\ hs[h].mood = DEFAULT_MOOD

\* C12: the story ledger is append-only: every channel's story holds
\* exactly the contributions made to it, in the order they were made,
\* whatever reads, setmoods and sweeps have run in between.
C12_StoryAppendOnly ==
  \A c \in Channels : story_state[c] = contributed[c]

\* Two different contributions were made to one channel, and a read of it
\* is in flight.
C12_Witness ==
  \E c \in Channels :
    /\ Len(story_state[c]) >= 2
    /\ story_state[c][1] # story_state[c][2]
    /\ \E h \in Handlers :
         /\ hs[h].cmd = "story" /\ hs[h].channel_id = c
         /\ hs[h].question = <<>>

\* C13: a story request without an addition on a channel that has no
\* contribution answers with the "No story started yet!" text whatever
\* the other channels hold, and a story request changes no other
\* channel's story.
C13_StoryPerChannel ==
  [][\A h \in Handlers :
       (hs[h].pc = "idle" /\ hs'[h].cmd = "story")
         => LET c == hs'[h].channel_id
            IN /\ (hs'[h].question = <<>> /\ story_state[c] = <<>>)
                    => hs'[h].response = NO_STORY
               /\ \A d \in Channels \ {c} :
                    story_state'[d] = story_state[d]]_vars

\* A read of an empty channel was answered with the sentinel while the
\* other channel has a story.
C13_Witness ==
  \E h \in Handlers :
    /\ hs[h].cmd = "story" /\ hs[h].question = <<>>
    /\ hs[h].response = NO_STORY
    /\ story_state[hs[h].channel_id] = <<>>
    /\ \E d \in Channels \ {hs[h].channel_id} : story_state[d] # <<>>

OneShots == {"trivia", "summarize"}

\* C14: trivia and summarize are one-shot: no step of theirs changes any
\* ledger, whether the model call succeeds or fails, and the prompt they
\* send is the mood line, an empty history and the request.
C14_OneShotsLeaveLedgers ==
  [][\A h \in Handlers :
       ((hs[h].cmd \in OneShots \/ hs'[h].cmd \in OneShots)
          /\ hs'[h] # hs[h])
         => /\ conversation_state' = conversation_state
            /\ hs'[h].pc = "llm"
                 => /\ Len(hs'[h].prompt) = 3
                    /\ hs'[h].prompt[1] = MoodLine(hs'[h].mood)
                    /\ hs'[h].prompt[2] = <<>>]_vars

\* A one-shot request of a user whose ledger holds turns is calling the
\* model.
C14_Witness ==
  \E h \in Handlers :
    /\ hs[h].cmd \in OneShots /\ hs[h].pc = "llm"
    /\ Len(Turns(hs[h].user_id)) >= 2

\* C20: the prompt of an ask is the mood line, then the turns the ledger
\* held before the new question, then the new question as its last line;
\* the question is not among the history lines a second time.
C20_QuestionOnceLast ==
  \A h \in Handlers :
    (hs[h].pc = "llm" /\ hs[h].cmd = "ask")
      => LET ledger == Turns(hs[h].user_id)
             prior == IF ledger = <<>> THEN <<>>
                      ELSE SubSeq(ledger, 1, Len(ledger) - 1)
         IN hs[h].prompt =
              <<MoodLine(hs[h].mood)>> \o JoinLines(prior)
                \o <<UserMsg(hs[h].question)>>

\* The entry of identity u: its label and its expiry, or None for a map
\* that does not hold it.
MoodEntry(moods, timers, u) ==
  [label |-> IF u \in DOMAIN moods THEN moods[u] ELSE None,
   expiry |-> IF u \in DOMAIN timers THEN timers[u] ELSE 0,
   stored |-> <<u \in DOMAIN moods, u \in DOMAIN timers>>]

\* C15: a step of the sweeper that visits identity u with the time `now`
\* read for it deletes u's entry exactly when now > expiresAt and leaves
\* every other entry, label and expiry, unchanged; a tick during which the
\* time did not move leaves no entry that a second tick at that time would
\* delete.
C15_SweepDeletesExactlyExpired ==
  [][/\ (sweep.pc = "pop" /\ sweep'.pc = "test")
        => LET u == Head(sweep.keys)
           IN /\ (sweep.now > mood_timers[u])
                   <=> (u \notin DOMAIN mood_timers'
                          /\ u \notin DOMAIN user_moods')
              /\ ~(sweep.now > mood_timers[u])
                   => MoodEntry(user_moods', mood_timers', u)
                        = MoodEntry(user_moods, mood_timers, u)
              /\ \A v \in Users \ {u} :
                   MoodEntry(user_moods', mood_timers', v)
                     = MoodEntry(user_moods, mood_timers, v)
     /\ (sweep.pc = "test" /\ sweep'.pc = "idle" /\ sweep.started = clock)
        => \A u \in DOMAIN mood_timers' : ~(clock > mood_timers'[u])]_vars

\* A tick has deleted one expired entry and has kept another identity's
\* entry that had not expired.
C15_Witness ==
  /\ sweep.pc = "test" /\ sweep.keys = <<>>
  /\ \E u, v \in Users :
       /\ lastSet[u].label # None /\ u \notin DOMAIN mood_timers
       /\ v \in DOMAIN mood_timers /\ v \in DOMAIN user_moods
       /\ clock <= mood_timers[v]

\* C16: while the model call of an ask is in flight for one identity, a
\* sweeper tick can begin and an idle handler can take a request of any
\* other identity.
C16_CallExcludesNothing ==
  \A h \in Handlers :
    (hs[h].pc = "llm" /\ hs[h].cmd = "ask")
      => /\ ENABLED SweepStart
         /\ \A g \in Handlers \ {h}, v \in Users \ {hs[h].user_id} :
              hs[g].pc = "idle" => ENABLED Trivia(g, v)

PerIdentity == {"ask", "setmood", "trivia", "summarize"}

\* C17: every step of an ask, setmood, trivia or summarize of identity a
\* leaves the ledger, the label and the expiry of every other identity
\* unchanged.
C17_OtherIdentitiesUntouched ==
  [][\A h \in Handlers :
       (hs'[h] # hs[h] /\ (hs[h].cmd \in PerIdentity
                             \/ hs'[h].cmd \in PerIdentity))
         => LET a == IF hs'[h].user_id # None THEN hs'[h].user_id
                     ELSE hs[h].user_id
            IN \A b \in Users \ {a} :
                 /\ conversation_state'[b] = conversation_state[b]
                 /\ MoodEntry(user_moods', mood_timers', b)
                      = MoodEntry(user_moods, mood_timers, b)]_vars

\* An ask of one identity has appended its bot turn while another identity
\* holds a ledger with turns and a mood entry.
C17_Witness ==
  \E h \in Handlers :
    /\ hs[h].cmd = "ask" /\ hs[h].pc = "send"
    /\ \E b \in Users \ {hs[h].user_id} :
         /\ Turns(b) # <<>>
         /\ b \in DOMAIN user_moods
         /\ Turns(b) # Turns(hs[h].user_id)

\* C19: the label map and the expiry map hold the same identities, and
\* every stored expiry is a time: the instant of a setmood plus the
\* lifetime of a mood.
C19_SameKeys ==
  /\ DOMAIN user_moods = DOMAIN mood_timers
  /\ \A u \in DOMAIN mood_timers :
       /\ mood_timers[u] \in Nat
       /\ mood_timers[u] = lastSet[u].at + MOOD_MINUTES

\* The sweeper has deleted one identity's entry while another identity's
\* entry, set again since, is stored.
C19_Witness ==
  \E u, v \in Users :
    /\ lastSet[u].label # None /\ u \notin DOMAIN user_moods
    /\ v \in DOMAIN user_moods /\ lastSet[v].at > 0

ExpiredEntry(u) == u \in DOMAIN mood_timers /\ clock > mood_timers[u]
Evicted(u) ==
  /\ u \notin DOMAIN user_moods
  /\ u \notin DOMAIN mood_timers
  /\ ReadMood(user_moods, u) = DEFAULT_MOOD
SetAgain(u) == u \in DOMAIN mood_timers /\ ~(clock > mood_timers[u])

\* C18: with sweeper ticks that keep firing, an entry whose expiry has
\* passed is eventually deleted, label and expiry, and its identity then
\* reads the default mood, unless a further setmood renews it first.
C18_EventuallyEvicted ==
  \A u \in Users : ExpiredEntry(u) ~> (Evicted(u) \/ SetAgain(u))

\* An identity whose mood was set at time 0 and then expired has been
\* evicted, with no entry stored for it.
C18_Witness ==
  \E u \in Users :
    /\ lastSet[u].label # None /\ lastSet[u].at = 0
    /\ clock > MOOD_MINUTES
    /\ Evicted(u)
    /\ sweep.pc = "idle"

=============================================================================
